---- MODULE Spec2Model ----
(***************************************************************************)
(* Event Pass (web/module4-event-pass, web/module5-event-pass-pro):        *)
(* the capacity-bounded registration counter.                              *)
(*                                                                         *)
(*  - the in-memory event store of module 4 (src/data/events.ts) and its   *)
(*    server actions (src/actions/eventActions.ts).  Node runs one         *)
(*    callback at a time: every data function is `await delay(ms)`         *)
(*    followed by a synchronous body, so a request is two steps, the call  *)
(*    (up to the await) and the commit (the timer callback together with   *)
(*    the awaiting action's continuation);                                 *)
(*  - the Firestore transaction of module 5 (slides, "Transactions for     *)
(*    Consistency");                                                       *)
(*  - the optimistic view of a registering client.                         *)
(*  - the listing and the reads of the store (getEvents, getEventById);   *)
(*  - module 5's AuthProvider (contexts/AuthContext.tsx) and poster cache  *)
(*    (lib/gemini.ts, generateEventPoster);                                *)
(*  - module 5's POST /api/generate-poster and GenerateDescriptionButton;  *)
(*  - module 4's event page (app/events/[id]/page.tsx).                    *)
(***************************************************************************)
EXTENDS Integers, Sequences, FiniteSets, TLC

VARIABLES
    events,     \* data/events.ts `events`: the array that is the store
    now,        \* the latest reading of the server clock (`new Date()`)
    nextId,     \* ids handed out so far by generateId()
    calls,      \* the server requests: position, arguments, return value
    seed,       \* the store as it was seeded (never written after Init)
    closed,     \* the ids of the events that have been `cancelado` at some time
    app,        \* which application is deployed: "module4" or "module5"
    docs,       \* module 5: the Firestore `events` collection
    docs0,      \* the collection as it was seeded (never written after Init)
    txs,        \* module 5: registerForEvent calls and their transactions
    clients,    \* the registering clients: their attempt and displayed count
    auth,       \* module 5: AuthProvider, its listener and the auth cookie
    poster,     \* module 5: the poster cache, the calls of generateEventPoster
    gen         \* module 5: GenerateDescriptionButton and its requests

vars ==
    <<events, now, nextId, calls, seed, closed, app, docs, docs0, txs, clients,
      auth, poster, gen>>

m4vars == <<events, now, nextId, calls, seed, closed>>
m5vars == <<docs, docs0, txs>>
uivars == <<clients>>
auxvars == <<auth, poster, gen>>

----------------------------------------------------------------------------
(* Bounds *)

NumCalls == 3       \* registrations in one behaviour of SpecReserve
NumRequests == 2    \* server requests in one behaviour of Spec
MaxCapacity == 2    \* largest capacity a seed or a form may carry
MaxTime == 2        \* last clock reading
MaxIds == 2         \* ids generateId() hands out, seed included
NumTxs == 3         \* module 5 registerForEvent calls in one behaviour
NumClients == 2     \* clients looking at the page of event 1
NumPosterCalls == 3 \* generateEventPoster calls in one behaviour
MaxDocWrites == 6   \* edits of one document by other writers in one behaviour
NumContenders == 2  \* registrations run against those writers
NumQueries == 1     \* getEvents calls in one behaviour of SpecQuery
NumRouteCalls == 3  \* POST /api/generate-poster requests in one behaviour
NumPresses == 3     \* presses of the generate-description button
MaxDate == 2        \* latest event date
MaxPrice == 1       \* highest event price

Calls == 1..NumCalls
Requests == 1..NumRequests
Clients == 1..NumClients
Txs == 1..NumTxs
DocIds == 1..2
PosterCalls == 1..NumPosterCalls
Contenders == 1..NumContenders
Queries == 1..NumQueries
RouteCalls == 1..NumRouteCalls
Presses == 1..NumPresses
Dates == 1..MaxDate
Prices == 0..MaxPrice
TargetIds == 1..MaxIds

----------------------------------------------------------------------------
(* Values *)

Statuses == {"borrador", "publicado", "cancelado"}

\* `null`, as an event-shaped record so that every field access is defined.
NoEvent ==
    [id |-> 0, status |-> "none", capacity |-> 0,
     registeredCount |-> 0, createdAt |-> 0, updatedAt |-> 0]

\* A form field that was not submitted.
Absent == -1

NoData == [status |-> "absent", capacity |-> Absent]

\* getEvents called without filters, or with every filter left out: an
\* empty or missing string is falsy, a missing priceMax is `undefined`.
NoFilters ==
    [search |-> <<>>, category |-> "absent", status |-> "absent",
     dateFrom |-> Absent, dateTo |-> Absent, priceMax |-> Absent]

IdleCall ==
    [op |-> "none", pc |-> "idle", id |-> 0, data |-> NoData,
     form |-> NoData, values |-> NoData, errors |-> {}, offered |-> FALSE,
     filters |-> NoFilters, list |-> <<>>,
     ret |-> NoEvent, live |-> FALSE, branch |-> "none", seen |-> 0,
     wasClosed |-> FALSE, success |-> FALSE,
     message |-> "none", reval |-> FALSE, reported |-> NoEvent, stamp |-> 0]

\* The events the store may hold: any status, 0 <= count <= capacity.  (The
\* seed list holds published and draft events; an edit cancels one.)
SeedEvents ==
    {e \in [id : {1}, status : Statuses,
              capacity : 1..MaxCapacity, registeredCount : 0..MaxCapacity,
              createdAt : {0}, updatedAt : {0}] :
        e.registeredCount <= e.capacity}

\* new Date(): the clock never runs backwards; two readings may coincide.
ClockReadings == {t \in {now, now + 1} : t <= MaxTime}

----------------------------------------------------------------------------
(* data/events.ts *)

\* events.find / events.findIndex: the first index holding `id`, 0 when none.
FindIndex(evs, id) ==
    IF \E i \in 1..Len(evs) : evs[i].id = id
    THEN CHOOSE i \in 1..Len(evs) :
            /\ evs[i].id = id
            /\ \A j \in 1..(i - 1) : evs[j].id # id
    ELSE 0

\* String.prototype.toLowerCase, on strings as sequences of characters.
LowerChar(ch) == IF ch = "A" THEN "a" ELSE IF ch = "B" THEN "b" ELSE ch
ToLowerCase(str) == [i \in 1..Len(str) |-> LowerChar(str[i])]

\* String.prototype.includes
Includes(str, sub) ==
    \E i \in 0..(Len(str) - Len(sub)) :
        \A j \in 1..Len(sub) : str[i + j] = sub[j]

\* The text filter of getEvents: the title or a tag contains the search
\* text, letter case aside (description and location are matched as the
\* title is).
MatchesSearch(e, search) ==
    LET searchLower == ToLowerCase(search) IN
    \/ Includes(ToLowerCase(e.title), searchLower)
    \/ \E tag \in e.tags : Includes(ToLowerCase(tag), searchLower)

\* Array.prototype.sort with (a, b) => date(a) - date(b): stable, ascending.
InsertByDate(e, sorted) ==
    LET k == Cardinality({i \in 1..Len(sorted) : sorted[i].date <= e.date})
    IN  SubSeq(sorted, 1, k) \o <<e>> \o SubSeq(sorted, k + 1, Len(sorted))

RECURSIVE SortByDate(_)
SortByDate(evs) ==
    IF evs = <<>> THEN <<>>
    ELSE InsertByDate(evs[Len(evs)], SortByDate(SubSeq(evs, 1, Len(evs) - 1)))

\* getEvents testing priceMax for truthiness: a maximum of 0 is not applied.
GetEventsPriceTruthy(evs, filters) ==
    LET r1 == IF filters.search # <<>>
              THEN SelectSeq(evs, LAMBDA e : MatchesSearch(e, filters.search)) ELSE evs
        r2 == IF filters.category # "absent"
              THEN SelectSeq(r1, LAMBDA e : e.category = filters.category) ELSE r1
        r3 == IF filters.status # "absent"
              THEN SelectSeq(r2, LAMBDA e : e.status = filters.status) ELSE r2
        r4 == IF filters.dateFrom # Absent
              THEN SelectSeq(r3, LAMBDA e : e.date >= filters.dateFrom) ELSE r3
        r5 == IF filters.dateTo # Absent
              THEN SelectSeq(r4, LAMBDA e : e.date <= filters.dateTo) ELSE r4
        r6 == IF filters.priceMax # Absent /\ filters.priceMax # 0
              THEN SelectSeq(r5, LAMBDA e : e.price <= filters.priceMax) ELSE r5
    IN  [events |-> evs, ret |-> SortByDate(r6)]

\* getEvents after its delay: a copy of the store is filtered by every
\* filter that was supplied, then sorted; the store itself is not touched.
GetEvents(evs, filters) ==
    LET r1 == IF filters.search # <<>>
              THEN SelectSeq(evs, LAMBDA e : MatchesSearch(e, filters.search)) ELSE evs
        r2 == IF filters.category # "absent"
              THEN SelectSeq(r1, LAMBDA e : e.category = filters.category) ELSE r1
        r3 == IF filters.status # "absent"
              THEN SelectSeq(r2, LAMBDA e : e.status = filters.status) ELSE r2
        r4 == IF filters.dateFrom # Absent
              THEN SelectSeq(r3, LAMBDA e : e.date >= filters.dateFrom) ELSE r3
        r5 == IF filters.dateTo # Absent
              THEN SelectSeq(r4, LAMBDA e : e.date <= filters.dateTo) ELSE r4
        r6 == IF filters.priceMax # Absent
              THEN SelectSeq(r5, LAMBDA e : e.price <= filters.priceMax) ELSE r5
    IN  [events |-> evs, ret |-> SortByDate(r6)]

\* A read that stamps the event it returns.
GetEventByIdTouching(evs, id, t) ==
    LET i == FindIndex(evs, id) IN
    IF i = 0
    THEN [events |-> evs, ret |-> NoEvent]
    ELSE LET e == [evs[i] EXCEPT !.updatedAt = t]
         IN  [events |-> [evs EXCEPT ![i] = e], ret |-> e]

\* getEventById after its delay: events.find(...) ?? null.
GetEventById(evs, id, t) ==
    LET i == FindIndex(evs, id) IN
    [events |-> evs, ret |-> IF i = 0 THEN NoEvent ELSE evs[i]]

\* registerForEvent without its capacity check.
RegisterBranchNoCapacityCheck(evs, id) ==
    LET i == FindIndex(evs, id) IN
    IF i = 0 THEN "NotFound"
    ELSE IF evs[i].status # "publicado" THEN "NotOpen"
    ELSE "ok"

\* registerForEvent without its status check.
RegisterBranchNoStatusCheck(evs, id) ==
    LET i == FindIndex(evs, id) IN
    IF i = 0 THEN "NotFound"
    ELSE IF evs[i].registeredCount >= evs[i].capacity THEN "Full"
    ELSE "ok"

\* registerForEvent checking the status before the capacity.
RegisterBranchStatusFirst(evs, id) ==
    LET i == FindIndex(evs, id) IN
    IF i = 0 THEN "NotFound"
    ELSE IF evs[i].status # "publicado" THEN "NotOpen"
    ELSE IF evs[i].registeredCount >= evs[i].capacity THEN "Full"
    ELSE "ok"

\* registerForEvent with `>` for `>=` in its capacity check.
RegisterBranchOffByOne(evs, id) ==
    LET i == FindIndex(evs, id) IN
    IF i = 0 THEN "NotFound"
    ELSE IF evs[i].registeredCount > evs[i].capacity THEN "Full"
    ELSE IF evs[i].status # "publicado" THEN "NotOpen"
    ELSE "ok"

\* The three early returns of registerForEvent, in the order of the code.
RegisterBranch(evs, id) ==
    LET i == FindIndex(evs, id) IN
    IF i = 0 THEN "NotFound"
    ELSE IF evs[i].registeredCount >= evs[i].capacity THEN "Full"
    ELSE IF evs[i].status # "publicado" THEN "NotOpen"
    ELSE "ok"

\* registerForEvent incrementing before it checks: a rejection leaves the write.
RegisterForEventWriteFirst(evs, id, t) ==
    LET i == FindIndex(evs, id)
        b == RegisterBranch(evs, id)
    IN  IF i = 0
        THEN [events |-> evs, ret |-> NoEvent, branch |-> b, seen |-> 0]
        ELSE LET e == [evs[i] EXCEPT !.registeredCount = @ + 1, !.updatedAt = t]
             IN  [events |-> [evs EXCEPT ![i] = e],
                  ret |-> IF b = "ok" THEN e ELSE NoEvent, branch |-> b,
                  seen |-> IF b = "ok" THEN evs[i].registeredCount ELSE 0]

\* registerForEvent returning a copy taken before the increment.
RegisterForEventStaleReturn(evs, id, t) ==
    LET i == FindIndex(evs, id)
        b == RegisterBranch(evs, id)
    IN  IF b # "ok"
        THEN [events |-> evs, ret |-> NoEvent, branch |-> b, seen |-> 0]
        ELSE LET e == [evs[i] EXCEPT !.registeredCount = @ + 1, !.updatedAt = t]
             IN  [events |-> [evs EXCEPT ![i] = e], ret |-> evs[i], branch |-> b,
                  seen |-> evs[i].registeredCount]

\* registerForEvent after its delay: the store it leaves and what it returns.
RegisterForEvent(evs, id, t) ==
    LET i == FindIndex(evs, id)
        b == RegisterBranch(evs, id)
    IN  IF b # "ok"
        THEN [events |-> evs, ret |-> NoEvent, branch |-> b, seen |-> 0]
        ELSE LET e == [evs[i] EXCEPT !.registeredCount = @ + 1, !.updatedAt = t]
             IN  [events |-> [evs EXCEPT ![i] = e], ret |-> e, branch |-> b,
                  seen |-> evs[i].registeredCount]


\* createEventSchema (types/event): capacity is a positive integer and
\* status one of the event statuses; .partial() lets either be absent.
ValidPartial(data) ==
    /\ data.status \in Statuses \cup {"absent"}
    /\ data.capacity = Absent \/ data.capacity >= 1

ValidFull(data) ==
    /\ data.status \in Statuses
    /\ data.capacity >= 1

\* The forms a client may submit: the edit form carries both fields, the
\* publish button `status` alone; capacity 0 fails validation.  A request
\* may carry a field the edit form does not have, here `registeredCount`.
UpdateForms ==
    [status : Statuses \cup {"absent"}, capacity : {Absent} \cup 0..MaxCapacity,
     registeredCount : {Absent, 0}]

\* An action that hands the whole form to updateEvent.
RawDataWholeForm(form) == form

\* updateEventAction reads the fields it knows by name: formData.get('status'),
\* formData.get('capacity'), ...; nothing else reaches rawData.
RawData(form) == [status |-> form.status, capacity |-> form.capacity]

\* The creation forms submitted here, as formData holds them: a draft or a
\* published event or no status chosen; the capacity typed, or left empty.
CreateForms ==
    [status : {"borrador", "publicado", "absent"},
     capacity : {Absent} \cup 0..MaxCapacity]

\* Number(formValues.capacity): the empty string is 0.
NumberOf(v) == IF v = Absent THEN 0 ELSE v

\* createEventAction's rawData: the form converted to the types of the schema.
CreateRawData(form) ==
    [status |-> form.status, capacity |-> NumberOf(form.capacity)]

\* validationResult.error.issues grouped by path: the fields that failed.
Issues(data) ==
    {f \in {"status", "capacity"} :
        \/ f = "status" /\ data.status \notin Statuses
        \/ f = "capacity" /\ data.capacity < 1}

\* {...data, ...event}: the stored fields win over the submitted ones.
SpreadEventLast(e, data) == e

\* {...event, ...data}: the submitted fields replace the stored ones.
Spread(e, data) ==
    [e EXCEPT !.status = IF data.status = "absent" THEN @ ELSE data.status,
              !.capacity = IF data.capacity = Absent THEN @ ELSE data.capacity,
              !.registeredCount =
                    IF "registeredCount" \in DOMAIN data
                       /\ data.registeredCount # Absent
                    THEN data.registeredCount ELSE @]

\* updateEvent carrying the creation time over as the time of the edit.
UpdateEventStampedAtCreation(evs, id, data, t) ==
    LET i == FindIndex(evs, id) IN
    IF i = 0
    THEN [events |-> evs, ret |-> NoEvent]
    ELSE LET e == [Spread(evs[i], data) EXCEPT !.updatedAt = evs[i].createdAt]
         IN  [events |-> [evs EXCEPT ![i] = e], ret |-> e]

\* updateEvent after its delay: events[index] becomes a new object.
UpdateEvent(evs, id, data, t) ==
    LET i == FindIndex(evs, id) IN
    IF i = 0
    THEN [events |-> evs, ret |-> NoEvent]
    ELSE LET e == [Spread(evs[i], data) EXCEPT !.updatedAt = t]
         IN  [events |-> [evs EXCEPT ![i] = e], ret |-> e]

\* events.splice(index): everything from the index on is removed.
SpliceToEnd(evs, i) == SubSeq(evs, 1, i - 1)

\* events.splice(index, 1)
Splice(evs, i) == SubSeq(evs, 1, i - 1) \o SubSeq(evs, i + 1, Len(evs))

\* A deleteEvent that cancels the event and keeps it in the store.
DeleteEventCancelling(evs, id) ==
    LET i == FindIndex(evs, id) IN
    IF i = 0
    THEN [events |-> evs, ret |-> FALSE]
    ELSE [events |-> [evs EXCEPT ![i].status = "cancelado"], ret |-> TRUE]

\* deleteEvent after its delay.
DeleteEvent(evs, id) ==
    LET i == FindIndex(evs, id) IN
    IF i = 0
    THEN [events |-> evs, ret |-> FALSE]
    ELSE [events |-> Splice(evs, i), ret |-> TRUE]

\* createEvent counting the organizer as the first registration.
CreateEventCountingOrganizer(evs, data, t, newId) ==
    LET e == [id |-> newId, status |-> data.status,
              capacity |-> data.capacity, registeredCount |-> 1,
              createdAt |-> t, updatedAt |-> t]
    IN  [events |-> Append(evs, e), ret |-> e]

\* createEvent after its delay: a new event is pushed with registeredCount 0.
CreateEvent(evs, data, t, newId) ==
    LET e == [id |-> newId, status |-> data.status,
              capacity |-> data.capacity, registeredCount |-> 0,
              createdAt |-> t, updatedAt |-> t]
    IN  [events |-> Append(evs, e), ret |-> e]

----------------------------------------------------------------------------
(* lib/utils.ts, app/events/[id]/page.tsx *)

\* isEventPast: new Date(dateString) < new Date(), the clock reading t.
IsEventPast(date, t) == date < t

\* getAvailableSpots: Math.max(0, capacity - registered).
GetAvailableSpots(capacity, registered) ==
    IF capacity - registered > 0 THEN capacity - registered ELSE 0

\* EventDetailPage's isAvailable, which enables the RegisterButton.
IsAvailable(e, t) ==
    /\ e.status = "publicado"
    /\ ~IsEventPast(e.date, t)
    /\ GetAvailableSpots(e.capacity, e.registeredCount) > 0

----------------------------------------------------------------------------
(* actions/eventActions.ts *)

MsgRegisterFailed == "No se pudo completar el registro"
MsgRegistered == "Te has registrado correctamente"
MsgFormErrors == "Por favor, corrige los errores en el formulario"
MsgUpdateNotFound == "No se encontro el evento a actualizar"
MsgUpdated == "Evento actualizado correctamente"
MsgDeleteNotFound == "No se encontro el evento a eliminar"
MsgDeleted == "Evento eliminado correctamente"
MsgCreated == "Evento creado correctamente"

\* An action that revalidates the page whatever the registration returned.
RegisterActionResultAlwaysRevalidates(event) ==
    IF event = NoEvent
    THEN [success |-> FALSE, message |-> MsgRegisterFailed, reval |-> TRUE]
    ELSE [success |-> TRUE, message |-> MsgRegistered, reval |-> TRUE]

\* registerForEventAction once registerInDb has resolved with `event`.
RegisterActionResult(event) ==
    IF event = NoEvent
    THEN [success |-> FALSE, message |-> MsgRegisterFailed, reval |-> FALSE]
    ELSE [success |-> TRUE, message |-> MsgRegistered, reval |-> TRUE]

----------------------------------------------------------------------------
(* Requests *)

\* Request slots are taken in order; which request uses which slot is a name.
CanStart(c) ==
    /\ calls[c].pc = "idle"
    /\ \A d \in Calls : d < c => calls[d].pc # "idle"

\* A returned event is the stored object itself (`live`): whoever still holds
\* it sees the in-place writes registerForEvent makes to that object later.
Aliased(cs, e) ==
    [d \in Calls |->
        IF cs[d].pc = "returned" /\ cs[d].live /\ cs[d].ret.id = e.id
        THEN [cs[d] EXCEPT !.ret = e]
        ELSE cs[d]]

\* updateEvent puts a new object at events[index] and deleteEvent splices the
\* object out: the objects returned earlier for that id are no longer stored.
Detached(cs, id) ==
    [d \in Calls |->
        IF cs[d].pc = "returned" /\ cs[d].live /\ cs[d].ret.id = id
        THEN [cs[d] EXCEPT !.live = FALSE]
        ELSE cs[d]]

\* registerForEventAction(id) is invoked and runs up to `await delay(300)`.
RegisterCall(c) ==
    /\ app = "module4"
    /\ CanStart(c)
    /\ \E id \in TargetIds :
        calls' = [calls EXCEPT ![c] =
                    [IdleCall EXCEPT !.op = "register", !.pc = "delay", !.id = id]]
    /\ UNCHANGED <<events, now, nextId, seed, closed, app, auxvars, m5vars, uivars>>

\* The timer fires: find, check, increment, and the action's continuation.
RegisterCommit(c) ==
    /\ calls[c].op = "register"
    /\ calls[c].pc = "delay"
    /\ \E t \in ClockReadings :
        LET r == RegisterForEvent(events, calls[c].id, t)
            a == RegisterActionResult(r.ret)
        IN  /\ events' = r.events
            /\ now' = IF r.branch = "ok" THEN t ELSE now
            /\ calls' = [Aliased(calls, r.ret) EXCEPT ![c] =
                            [calls[c] EXCEPT !.pc = "returned", !.ret = r.ret,
                                             !.live = (r.branch = "ok"),
                                             !.branch = r.branch,
                                             !.seen = r.seen,
                                             !.wasClosed = (calls[c].id \in closed),
                                             !.success = a.success,
                                             !.message = a.message,
                                             !.reval = a.reval]]
    /\ UNCHANGED <<nextId, seed, closed, app, auxvars, m5vars, uivars>>

\* updateEventAction(id, _, formData) up to its first await: the form is
\* validated; an invalid form returns at once, a valid one awaits updateEvent.
UpdateCall(c) ==
    /\ app = "module4"
    /\ CanStart(c)
    /\ \E id \in TargetIds, form \in UpdateForms :
        LET data == RawData(form) IN
        calls' = [calls EXCEPT ![c] =
            IF ValidPartial(data)
            THEN [IdleCall EXCEPT !.op = "update", !.pc = "delay", !.id = id,
                                  !.data = data]
            ELSE [IdleCall EXCEPT !.op = "update", !.pc = "returned", !.id = id,
                                  !.data = data, !.branch = "invalid",
                                  !.message = MsgFormErrors]]
    /\ UNCHANGED <<events, now, nextId, seed, closed, app, auxvars, m5vars, uivars>>

\* updateEvent's timer fires, then the action's continuation.
UpdateCommit(c) ==
    /\ calls[c].op = "update"
    /\ calls[c].pc = "delay"
    /\ \E t \in ClockReadings :
        LET r == UpdateEvent(events, calls[c].id, calls[c].data, t)
            found == r.ret # NoEvent
        IN  /\ events' = r.events
            /\ now' = IF found THEN t ELSE now
            /\ closed' = IF found /\ r.ret.status = "cancelado"
                          THEN closed \cup {calls[c].id} ELSE closed
            /\ calls' = [Detached(calls, calls[c].id) EXCEPT ![c] =
                    [calls[c] EXCEPT !.pc = "returned", !.ret = r.ret,
                                     !.live = found,
                                     !.branch = IF found THEN "ok" ELSE "NotFound",
                                     !.success = found,
                                     !.message = IF found THEN MsgUpdated
                                                 ELSE MsgUpdateNotFound,
                                     !.reval = found]]
    /\ UNCHANGED <<nextId, seed, app, auxvars, m5vars, uivars>>

\* deleteEventAction(id) up to `await delay(300)`.
DeleteCall(c) ==
    /\ app = "module4"
    /\ CanStart(c)
    /\ \E id \in TargetIds :
        calls' = [calls EXCEPT ![c] =
                    [IdleCall EXCEPT !.op = "delete", !.pc = "delay", !.id = id]]
    /\ UNCHANGED <<events, now, nextId, seed, closed, app, auxvars, m5vars, uivars>>

\* deleteEvent's timer fires, then the action's continuation.
DeleteCommit(c) ==
    /\ calls[c].op = "delete"
    /\ calls[c].pc = "delay"
    /\ LET r == DeleteEvent(events, calls[c].id)
       IN  /\ events' = r.events
           /\ calls' = [Detached(calls, calls[c].id) EXCEPT ![c] =
                    [calls[c] EXCEPT !.pc = "returned",
                                     !.branch = IF r.ret THEN "ok" ELSE "NotFound",
                                     !.success = r.ret,
                                     !.message = IF r.ret THEN MsgDeleted
                                                 ELSE MsgDeleteNotFound,
                                     !.reval = r.ret]]
    /\ UNCHANGED <<now, nextId, seed, closed, app, auxvars, m5vars, uivars>>

\* createEventAction(_, formData) up to its first await.
CreateCall(c) ==
    /\ app = "module4"
    /\ CanStart(c)
    /\ nextId + Cardinality({d \in Calls : calls[d].op = "create"
                                           /\ calls[d].pc = "delay"}) < MaxIds
    /\ \E form \in CreateForms :
        LET data == CreateRawData(form) IN
        calls' = [calls EXCEPT ![c] =
            IF ValidFull(data)
            THEN [IdleCall EXCEPT !.op = "create", !.pc = "delay", !.data = data,
                                  !.form = form]
            ELSE [IdleCall EXCEPT !.op = "create", !.pc = "returned",
                                  !.data = data, !.form = form,
                                  !.branch = "invalid",
                                  !.message = MsgFormErrors,
                                  !.errors = Issues(data), !.values = form]]
    /\ UNCHANGED <<events, now, nextId, seed, closed, app, auxvars, m5vars, uivars>>

\* createEvent's timer fires, then the action's continuation.
CreateCommit(c) ==
    /\ calls[c].op = "create"
    /\ calls[c].pc = "delay"
    /\ \E t \in ClockReadings :
        LET r == CreateEvent(events, calls[c].data, t, nextId + 1)
        IN  /\ events' = r.events
            /\ now' = t
            /\ nextId' = nextId + 1
            /\ calls' = [calls EXCEPT ![c] =
                    [calls[c] EXCEPT !.pc = "returned", !.id = r.ret.id,
                                     !.ret = r.ret, !.live = TRUE, !.branch = "ok",
                                     !.success = TRUE, !.message = MsgCreated,
                                     !.reval = TRUE]]
    /\ UNCHANGED <<seed, closed, app, auxvars, m5vars, uivars>>

\* The successful writes made so far: what a read is compared against.
Version ==
    Cardinality({d \in Calls : /\ calls[d].op \in {"register", "update", "delete", "create"}
                               /\ calls[d].pc \in {"returned", "done"}
                               /\ calls[d].branch = "ok"})

\* getEventById(id) is called (the event page renders) up to `await delay(200)`.
ReadCall(c) ==
    /\ app = "module4"
    /\ CanStart(c)
    /\ \E id \in TargetIds :
        calls' = [calls EXCEPT ![c] =
                    [IdleCall EXCEPT !.op = "read", !.pc = "delay", !.id = id]]
    /\ UNCHANGED <<events, now, nextId, seed, closed, app, auxvars, m5vars, uivars>>

\* getEventById's timer fires: the stored object, or null, is returned.
ReadCommit(c) ==
    /\ calls[c].op = "read"
    /\ calls[c].pc = "delay"
    /\ \E t \in ClockReadings :
        LET r == GetEventById(events, calls[c].id, t)
        IN  /\ events' = r.events
            /\ calls' = [calls EXCEPT ![c] =
                    [calls[c] EXCEPT !.pc = "returned", !.ret = r.ret,
                                     !.live = (r.ret # NoEvent),
                                     !.branch = IF r.ret # NoEvent THEN "found"
                                                ELSE "NotFound",
                                     !.stamp = Version]]
    /\ UNCHANGED <<now, nextId, seed, closed, app, auxvars, m5vars, uivars>>

\* EventDetailPage once getEventById has resolved: notFound() for null,
\* otherwise the page is rendered with isAvailable computed at this moment.
PageRender(c) ==
    /\ calls[c].op = "read"
    /\ calls[c].pc = "returned"
    /\ \E t \in ClockReadings :
        /\ now' = t
        /\ calls' = [calls EXCEPT ![c] =
                [calls[c] EXCEPT !.pc = "done", !.reported = calls[c].ret,
                                 !.ret = NoEvent, !.live = FALSE,
                                 !.offered = IF calls[c].ret = NoEvent THEN FALSE
                                             ELSE IsAvailable(calls[c].ret, t)]]
    /\ UNCHANGED <<events, nextId, seed, closed, app, auxvars, m5vars, uivars>>

\* The filters a page may pass (EventsPage builds them from the URL).
FilterSets ==
    [search : {<<>>, <<"a", "B">>}, category : {"absent", "conferencia"},
     status : {"absent", "publicado"}, dateFrom : {Absent} \cup Dates,
     dateTo : {Absent} \cup Dates, priceMax : {Absent} \cup Prices]

\* getEvents(filters) is called up to `await delay(300)`.
GetEventsCall(c) ==
    /\ app = "module4"
    /\ CanStart(c)
    /\ \E f \in FilterSets :
        calls' = [calls EXCEPT ![c] =
                    [IdleCall EXCEPT !.op = "list", !.pc = "delay", !.filters = f]]
    /\ UNCHANGED <<events, now, nextId, seed, closed, app, auxvars, m5vars, uivars>>

\* getEvents' timer fires: filter, sort, return.
GetEventsCommit(c) ==
    /\ calls[c].op = "list"
    /\ calls[c].pc = "delay"
    /\ LET r == GetEvents(events, calls[c].filters)
       IN  /\ events' = r.events
           /\ calls' = [calls EXCEPT ![c] =
                    [calls[c] EXCEPT !.pc = "done", !.list = r.ret, !.branch = "ok"]]
    /\ UNCHANGED <<now, nextId, seed, closed, app, auxvars, m5vars, uivars>>

\* An action whose failure result never reaches the caller.
DeliverOnlySuccess(c) ==
    /\ calls[c].pc = "returned"
    /\ calls[c].success
    /\ calls' = [calls EXCEPT ![c] =
                    [calls[c] EXCEPT !.pc = "done", !.reported = calls[c].ret,
                                     !.ret = NoEvent, !.live = FALSE]]
    /\ UNCHANGED <<events, now, nextId, seed, closed, app, auxvars, m5vars, uivars>>

\* The returned FormState is serialised for the caller: `data` is read now.
Deliver(c) ==
    /\ calls[c].pc = "returned"
    /\ calls' = [calls EXCEPT ![c] =
                    [calls[c] EXCEPT !.pc = "done", !.reported = calls[c].ret,
                                     !.ret = NoEvent, !.live = FALSE]]
    /\ UNCHANGED <<events, now, nextId, seed, closed, app, auxvars, m5vars, uivars>>

----------------------------------------------------------------------------
(* The optimistic view of a registering client (components/RegisterButton) *)

\* A client that has the event page open and has not yet tried to register;
\* `shadow` is the count it displays.
IdleClient(n) == [phase |-> "Idle", shadow |-> n, pre |-> n, call |-> 0]

\* The local +1 shown at once, and its reversal.
Optimistic(n) == n + 1
RevertedNot(n) == n
Reverted(n) == n - 1

\* A control that stays enabled while an attempt is pending.
ClickNeverDisabled(k) ==
    /\ app = "module4"
    /\ \E c \in Calls :
        /\ CanStart(c)
        /\ calls' = [calls EXCEPT ![c] =
                    [IdleCall EXCEPT !.op = "register", !.pc = "delay", !.id = 1]]
        /\ clients' = [clients EXCEPT ![k] =
                    [phase |-> "Pending", shadow |-> Optimistic(clients[k].shadow),
                     pre |-> clients[k].shadow, call |-> c]]
    /\ UNCHANGED <<events, now, nextId, seed, closed, app, auxvars, m5vars>>

\* Idle -> Pending: the user presses Register; the control is disabled while
\* an attempt is pending; registerForEventAction(id) is invoked.
Click(k) ==
    /\ app = "module4"
    /\ clients[k].phase # "Pending"
    /\ \E c \in Calls :
        /\ CanStart(c)
        /\ calls' = [calls EXCEPT ![c] =
                    [IdleCall EXCEPT !.op = "register", !.pc = "delay", !.id = 1]]
        /\ clients' = [clients EXCEPT ![k] =
                    [phase |-> "Pending", shadow |-> Optimistic(clients[k].shadow),
                     pre |-> clients[k].shadow, call |-> c]]
    /\ UNCHANGED <<events, now, nextId, seed, closed, app, auxvars, m5vars>>

\* Pending -> Committed | RolledBack: the response of the action arrives.
Settle(k) ==
    /\ clients[k].phase = "Pending"
    /\ calls[clients[k].call].pc = "done"
    /\ LET r == calls[clients[k].call] IN
       clients' = [clients EXCEPT ![k] =
            IF r.success
            THEN [@ EXCEPT !.phase = "Committed",
                           !.shadow = r.reported.registeredCount]
            ELSE [@ EXCEPT !.phase = "RolledBack",
                           !.shadow = Reverted(@)]]
    /\ UNCHANGED <<m4vars, app, auxvars, m5vars>>

\* Pending -> RolledBack: the call fails on the network; whether the server
\* ran the registration is unknown to the client.
NetworkFailure(k) ==
    /\ clients[k].phase = "Pending"
    /\ calls[clients[k].call].pc # "done"
    /\ clients' = [clients EXCEPT ![k] =
            [@ EXCEPT !.phase = "RolledBack", !.shadow = Reverted(@)]]
    /\ UNCHANGED <<m4vars, app, auxvars, m5vars>>

----------------------------------------------------------------------------
(* Module 5: registerForEvent inside adminDb.runTransaction *)

\* The SDK runs the transaction function at most this many times.
MaxAttempts == 5

\* A document that does not exist (docSnap.exists is false).
NoDoc ==
    [exists |-> FALSE, status |-> "none", capacity |-> 0,
     registeredCount |-> 0, updatedAt |-> 0, version |-> 0]

SeedDocs ==
    {d \in [exists : {TRUE}, status : {"published", "draft"},
              capacity : 1..MaxCapacity, registeredCount : 0..MaxCapacity,
              updatedAt : {0}, version : {0}] :
        d.registeredCount <= d.capacity}

IdleTx ==
    [pc |-> "idle", id |-> 0, snap |-> NoDoc, attempts |-> 0,
     branch |-> "none", ret |-> NoDoc]

\* The early returns of the transaction function, in the order of the code.
TxBranch(data) ==
    IF ~data.exists THEN "NotFound"
    ELSE IF data.registeredCount >= data.capacity THEN "Full"
    ELSE IF data.status # "published" THEN "NotOpen"
    ELSE "ok"

\* transaction.update(docRef, {registeredCount: data.registeredCount + 1, updatedAt}).
TxWrite(doc, data, t) ==
    [doc EXCEPT !.registeredCount = data.registeredCount + 1,
                !.updatedAt = t,
                !.version = doc.version + 1]

\* A read-then-write without the transaction: no commit is ever refused.
TxConflictIgnored(doc, snap) == FALSE

\* runTransaction's isolation: a commit is refused when the document it read
\* was written by another transaction in between.
TxConflict(doc, snap) == doc.version # snap.version

CanStartTx(x) ==
    /\ txs[x].pc = "idle"
    /\ \A y \in Txs : y < x => txs[y].pc # "idle"

\* registerForEvent(eventId) is called; runTransaction is entered.
TxCall(x) ==
    /\ app = "module5"
    /\ CanStartTx(x)
    /\ \E id \in DocIds :
        txs' = [txs EXCEPT ![x] = [IdleTx EXCEPT !.pc = "get", !.id = id]]
    /\ UNCHANGED <<m4vars, app, auxvars, docs, docs0, uivars>>

\* await transaction.get(docRef), and the function body up to its return.
TxGet(x) ==
    /\ txs[x].pc = "get"
    /\ txs' = [txs EXCEPT ![x] =
                [txs[x] EXCEPT !.pc = "commit",
                               !.snap = docs[txs[x].id],
                               !.attempts = @ + 1,
                               !.branch = TxBranch(docs[txs[x].id])]]
    /\ UNCHANGED <<m4vars, app, auxvars, docs, docs0, uivars>>

\* runTransaction running the function again after every conflict, without end.
TxCommitRetriesForever(x) ==
    /\ txs[x].pc = "commit"
    /\ LET tx == txs[x]
           doc == docs[tx.id]
       IN  IF tx.branch # "ok"
           THEN /\ txs' = [txs EXCEPT ![x] = [tx EXCEPT !.pc = "done", !.ret = NoDoc]]
                /\ UNCHANGED <<docs, now>>
           ELSE IF TxConflict(doc, tx.snap)
           THEN /\ txs' = [txs EXCEPT ![x] = [tx EXCEPT !.pc = "get"]]
                /\ UNCHANGED <<docs, now>>
           ELSE \E t \in ClockReadings :
                /\ docs' = [docs EXCEPT ![tx.id] = TxWrite(doc, tx.snap, t)]
                /\ now' = t
                /\ txs' = [txs EXCEPT ![x] =
                            [tx EXCEPT !.pc = "done",
                                       !.ret = [tx.snap EXCEPT !.registeredCount = @ + 1]]]
    /\ UNCHANGED <<events, nextId, calls, seed, closed, app, auxvars, docs0, uivars>>

\* updateEvent (module 5): docRef.update({...data, updatedAt}) by another
\* writer, here an edit of a field the registration does not read.
DocWrite(d) ==
    /\ app = "module5"
    /\ docs[d].exists
    /\ docs[d].version < MaxDocWrites
    /\ \E t \in ClockReadings :
        /\ docs' = [docs EXCEPT ![d] = [@ EXCEPT !.updatedAt = t, !.version = @ + 1]]
        /\ now' = t
    /\ UNCHANGED <<events, nextId, calls, seed, closed, app, auxvars, docs0, txs, uivars>>

\* The function returned: the transaction commits, or is run again, or gives up.
TxCommit(x) ==
    /\ txs[x].pc = "commit"
    /\ LET tx == txs[x]
           doc == docs[tx.id]
       IN  IF tx.branch # "ok"
           THEN /\ txs' = [txs EXCEPT ![x] = [tx EXCEPT !.pc = "done", !.ret = NoDoc]]
                /\ UNCHANGED <<docs, now>>
           ELSE IF TxConflict(doc, tx.snap)
           THEN /\ txs' = [txs EXCEPT ![x] =
                            [tx EXCEPT !.pc = IF tx.attempts >= MaxAttempts
                                              THEN "failed" ELSE "get"]]
                /\ UNCHANGED <<docs, now>>
           ELSE \E t \in ClockReadings :
                /\ docs' = [docs EXCEPT ![tx.id] = TxWrite(doc, tx.snap, t)]
                /\ now' = t
                /\ txs' = [txs EXCEPT ![x] =
                            [tx EXCEPT !.pc = "done",
                                       !.ret = [tx.snap EXCEPT !.registeredCount = @ + 1]]]
    /\ UNCHANGED <<events, nextId, calls, seed, closed, app, auxvars, docs0, uivars>>

----------------------------------------------------------------------------
(* Module 5: contexts/AuthContext.tsx, AuthProvider *)

\* Firebase's current user: null, or one of the accounts.
NoUser == "null"
Accounts == {"ana", "luis"}

\* The cookie `firebase-auth-token`: empty, or the ID token of an account.
NoToken == "empty"
IdToken(u) == u

\* AuthProvider before its effect has run: useState(null), useState(true).
\* `phase` is the component's life, `subscribed` the listener's registration,
\* `due` a state change Firebase has yet to report to the listener, `fetching`
\* the callbacks suspended at `await user.getIdToken()`.
AuthIdle ==
    [phase |-> "created", subscribed |-> FALSE, current |-> NoUser,
     due |-> FALSE, user |-> NoUser, loading |-> TRUE, cookie |-> NoToken,
     fetching |-> {}]

\* What the cleanup of the effect does to the listener: unsubscribe().
Unsubscribed(a) == [a EXCEPT !.subscribed = FALSE, !.due = FALSE]

\* useEffect(..., []): onAuthStateChanged registers the listener; Firebase
\* reports the current state to a new listener.
Mount ==
    /\ auth.phase = "created"
    /\ auth' = [auth EXCEPT !.phase = "mounted", !.subscribed = TRUE, !.due = TRUE]
    /\ UNCHANGED <<m4vars, app, m5vars, uivars, poster, gen>>

\* signInWith..., registerWithEmail, logout: Firebase's auth state changes.
AuthChange(u) ==
    /\ auth.phase # "created"
    /\ u # auth.current
    /\ auth' = [auth EXCEPT !.current = u, !.due = auth.subscribed]
    /\ UNCHANGED <<m4vars, app, m5vars, uivars, poster, gen>>

\* The listener runs up to its first await: setUser(user), and either the
\* token fetch is started or the cookie is cleared and setLoading(false).
Listener ==
    /\ auth.subscribed
    /\ auth.due
    /\ auth' =
        IF auth.current # NoUser
        THEN [auth EXCEPT !.due = FALSE, !.user = auth.current,
                          !.fetching = @ \cup {auth.current}]
        ELSE [auth EXCEPT !.due = FALSE, !.user = NoUser,
                          !.cookie = NoToken, !.loading = FALSE]
    /\ UNCHANGED <<m4vars, app, m5vars, uivars, poster, gen>>

\* getIdToken() resolves: the callback writes the cookie and calls
\* setLoading(false); React drops a state update of an unmounted component.
TokenResolved(u) ==
    /\ u \in auth.fetching
    /\ auth' = [auth EXCEPT !.fetching = @ \ {u},
                            !.cookie = IdToken(u),
                            !.loading = IF auth.phase = "mounted" THEN FALSE ELSE @]
    /\ UNCHANGED <<m4vars, app, m5vars, uivars, poster, gen>>

\* AuthProvider unmounts: the cleanup of the effect runs.
Unmount ==
    /\ auth.phase = "mounted"
    /\ auth' = [Unsubscribed(auth) EXCEPT !.phase = "torn"]
    /\ UNCHANGED <<m4vars, app, m5vars, uivars, poster, gen>>

----------------------------------------------------------------------------
(* Module 5: lib/gemini.ts, generateEventPoster *)

NoUrl == "null"

\* The public URLs uploadPosterToStorage may return for an event: the helper
\* (lib/firebase/storage) decides whether an upload keeps the URL.
PosterUrls(id) == {<<id, "a">>, <<id, "b">>}

\* A call of generateEventPoster: where it is, what it returned, and which
\* of its awaits failed, if one did.
IdlePosterCall == [pc |-> "idle", id |-> 0, ret |-> NoUrl, failure |-> "none"]

\* The body of a request: `json` tells whether request.json() resolves; a
\* field is missing, or an empty string, or has a value (eventId: 0 when it
\* is missing, else the id).
NoBody ==
    [json |-> FALSE, eventId |-> 0, title |-> "absent", category |-> "absent",
     location |-> "absent", date |-> "absent"]

Bodies ==
    {NoBody} \cup
    [json : {TRUE}, eventId : {0, 1}, title : {"absent", "empty", "value"},
     category : {"absent", "value"}, location : {"absent", "value"},
     date : {"absent", "value"}]

\* !v for a body field: undefined and '' are falsy.
Falsy(v) == v \in {"absent", "empty"}

\* The validation of a route that forgets the date.
MissingFieldButDate(body) ==
    \/ body.eventId = 0
    \/ Falsy(body.title)
    \/ Falsy(body.category)
    \/ Falsy(body.location)

\* !eventId || !title || !category || !location || !date
MissingField(body) ==
    \/ body.eventId = 0
    \/ Falsy(body.title)
    \/ Falsy(body.category)
    \/ Falsy(body.location)
    \/ Falsy(body.date)

\* A request to POST /api/generate-poster and its response.
IdleRoute ==
    [pc |-> "idle", body |-> NoBody, status |-> 0, error |-> "none",
     posterUrl |-> NoUrl]

\* Nothing stored, nothing generated, no call made, no request received.
PosterIdle ==
    [configured |-> TRUE,
     storage |-> [i \in DocIds |-> NoUrl],
     invoked |-> [i \in DocIds |-> 0],
     calls |-> [p \in PosterCalls |-> IdlePosterCall],
     routes |-> [p \in RouteCalls |-> IdleRoute]]

CanStartPoster(p) ==
    /\ poster.calls[p].pc = "idle"
    /\ \A q \in PosterCalls : q < p => poster.calls[q].pc # "idle"

\* generateEventPoster(input) is called and awaits getPosterFromStorage.
PosterCall(p) ==
    /\ app = "module5"
    /\ CanStartPoster(p)
    /\ \E id \in DocIds :
        poster' = [poster EXCEPT !.calls[p] = [IdlePosterCall EXCEPT !.pc = "cache", !.id = id]]
    /\ UNCHANGED <<m4vars, app, m5vars, uivars, auth, gen>>

\* `await getPosterFromStorage(input.eventId)` settles.  Resolved: a cached URL
\* is returned; otherwise, without an API key null is returned, and with one
\* model.generateContent(prompt) is invoked and awaited.  Rejected: the await
\* stands before the try block, so the rejection is the caller's.
PosterCacheRead(p) ==
    /\ poster.calls[p].pc = "cache"
    /\ LET id == poster.calls[p].id
           cachedUrl == poster.storage[id]
       IN  \/ poster' =
                IF cachedUrl # NoUrl
                THEN [poster EXCEPT !.calls[p].pc = "done", !.calls[p].ret = cachedUrl]
                ELSE IF ~poster.configured
                THEN [poster EXCEPT !.calls[p].pc = "done", !.calls[p].ret = NoUrl,
                                    !.calls[p].failure = "nokey"]
                ELSE [poster EXCEPT !.calls[p].pc = "generate",
                                    !.invoked[id] = @ + 1]
           \/ poster' = [poster EXCEPT !.calls[p].pc = "threw",
                                       !.calls[p].failure = "cache"]
    /\ UNCHANGED <<m4vars, app, m5vars, uivars, auth, gen>>

\* generateContent resolved with an image, without one, or threw: with an
\* image uploadPosterToStorage is called; otherwise null is returned.
PosterGenerated(p) ==
    /\ poster.calls[p].pc = "generate"
    /\ \E outcome \in {"image", "noimage", "model"} :
        poster' =
            IF outcome = "image"
            THEN [poster EXCEPT !.calls[p].pc = "upload"]
            ELSE [poster EXCEPT !.calls[p].pc = "done", !.calls[p].ret = NoUrl,
                                !.calls[p].failure = outcome]
    /\ UNCHANGED <<m4vars, app, m5vars, uivars, auth, gen>>

\* uploadPosterToStorage resolved with the public URL, or threw.
PosterUploaded(p) ==
    /\ poster.calls[p].pc = "upload"
    /\ LET id == poster.calls[p].id IN
       \/ \E url \in PosterUrls(id) :
            poster' = [poster EXCEPT !.storage[id] = url,
                                     !.calls[p].pc = "done", !.calls[p].ret = url]
       \/ poster' = [poster EXCEPT !.calls[p].pc = "done", !.calls[p].ret = NoUrl,
                                   !.calls[p].failure = "upload"]
    /\ UNCHANGED <<m4vars, app, m5vars, uivars, auth, gen>>

\* POST /api/generate-poster: a request arrives; the handler awaits
\* request.json().
RoutePost(p) ==
    /\ app = "module5"
    /\ poster.routes[p].pc = "idle"
    /\ \A q \in RouteCalls : q < p => poster.routes[q].pc # "idle"
    /\ \E body \in Bodies :
        poster' = [poster EXCEPT !.routes[p] =
                        [IdleRoute EXCEPT !.pc = "json", !.body = body]]
    /\ UNCHANGED <<m4vars, app, m5vars, uivars, auth, gen>>

\* request.json() settles: a body that is not JSON goes to the catch (500);
\* a body with a missing field is answered 400; otherwise generateEventPoster
\* is called and awaited (it runs up to its own first await).
RouteParsed(p) ==
    /\ poster.routes[p].pc = "json"
    /\ LET body == poster.routes[p].body IN
       poster' =
            IF ~body.json
            THEN [poster EXCEPT !.routes[p].pc = "responded",
                                !.routes[p].status = 500,
                                !.routes[p].error = "Error interno del servidor"]
            ELSE IF MissingField(body)
            THEN [poster EXCEPT !.routes[p].pc = "responded",
                                !.routes[p].status = 400,
                                !.routes[p].error = "Faltan campos requeridos"]
            ELSE [poster EXCEPT !.routes[p].pc = "generating",
                                !.calls[p] = [IdlePosterCall EXCEPT
                                                !.pc = "cache", !.id = body.eventId]]
    /\ UNCHANGED <<m4vars, app, m5vars, uivars, auth, gen>>

\* generateEventPoster settled: null gives 500, a rejection gives the 500 of
\* the catch, a URL gives NextResponse.json({posterUrl}), status 200.
RouteRespond(p) ==
    /\ poster.routes[p].pc = "generating"
    /\ poster.calls[p].pc \in {"done", "threw"}
    /\ LET g == poster.calls[p] IN
       poster' =
            IF g.pc = "threw"
            THEN [poster EXCEPT !.routes[p].pc = "responded",
                                !.routes[p].status = 500,
                                !.routes[p].error = "Error interno del servidor"]
            ELSE IF g.ret = NoUrl
            THEN [poster EXCEPT !.routes[p].pc = "responded",
                                !.routes[p].status = 500,
                                !.routes[p].error = "No se pudo generar el poster"]
            ELSE [poster EXCEPT !.routes[p].pc = "responded",
                                !.routes[p].status = 200,
                                !.routes[p].posterUrl = g.ret]
    /\ UNCHANGED <<m4vars, app, m5vars, uivars, auth, gen>>

----------------------------------------------------------------------------
(* Module 5: GenerateDescriptionButton *)

MsgFillFirst == "Completa el titulo, categoria, ubicacion y fecha primero"
MsgNotOk == "Error al generar la descripcion"
MsgNoDescription == "No se pudo generar la descripcion"
MsgThrown == "message of the error thrown by fetch or response.json()"

\* The props the form passes: each text is '' or filled in.
GenProps ==
    [title : {"empty", "value"}, category : {"empty", "value"},
     location : {"empty", "value"}, date : {"empty", "value"},
     disabled : BOOLEAN]

\* One run of handleGenerate: where it is, the props it closed over, whether
\* it sent its request, and what it passed to onGenerated, if anything.
IdlePress ==
    [pc |-> "idle", sent |-> FALSE, ok |-> FALSE, description |-> "empty",
     generated |-> "empty",
     input |-> [title |-> "empty", category |-> "empty", location |-> "empty",
                date |-> "empty", disabled |-> FALSE]]

\* useState(false), useState(null); the form is empty at first.
GenIdle ==
    [props |-> [title |-> "empty", category |-> "empty", location |-> "empty",
                date |-> "empty", disabled |-> FALSE],
     isGenerating |-> FALSE, error |-> "null",
     presses |-> [h \in Presses |-> IdlePress]]

\* !title || !category || !location || !date
GenMissing(props) ==
    \/ props.title = "empty"
    \/ props.category = "empty"
    \/ props.location = "empty"
    \/ props.date = "empty"

\* The form is edited: the button is rendered again with new props.
GenRender(props) ==
    /\ app = "module5"
    /\ props # gen.props
    /\ gen' = [gen EXCEPT !.props = props]
    /\ UNCHANGED <<m4vars, app, m5vars, uivars, auth, poster>>

\* A button that is not disabled while a request is in flight.
GenClickNeverDisabled(h) ==
    /\ app = "module5"
    /\ gen.presses[h].pc = "idle"
    /\ \A g \in Presses : g < h => gen.presses[g].pc # "idle"
    /\ ~gen.props.disabled
    /\ gen' =
        IF GenMissing(gen.props)
        THEN [gen EXCEPT !.error = MsgFillFirst,
                         !.presses[h] = [IdlePress EXCEPT !.pc = "done",
                                                          !.input = gen.props]]
        ELSE [gen EXCEPT !.isGenerating = TRUE, !.error = "null",
                         !.presses[h] = [IdlePress EXCEPT !.pc = "fetch",
                                                          !.sent = TRUE,
                                                          !.input = gen.props]]
    /\ UNCHANGED <<m4vars, app, m5vars, uivars, auth, poster>>

\* onClick={handleGenerate} on a button with disabled={isGenerating ||
\* disabled}: the handler runs up to `await fetch(...)`, or returns at the
\* validation.
GenClick(h) ==
    /\ app = "module5"
    /\ gen.presses[h].pc = "idle"
    /\ \A g \in Presses : g < h => gen.presses[g].pc # "idle"
    /\ ~(gen.isGenerating \/ gen.props.disabled)
    /\ gen' =
        IF GenMissing(gen.props)
        THEN [gen EXCEPT !.error = MsgFillFirst,
                         !.presses[h] = [IdlePress EXCEPT !.pc = "done",
                                                          !.input = gen.props]]
        ELSE [gen EXCEPT !.isGenerating = TRUE, !.error = "null",
                         !.presses[h] = [IdlePress EXCEPT !.pc = "fetch",
                                                          !.sent = TRUE,
                                                          !.input = gen.props]]
    /\ UNCHANGED <<m4vars, app, m5vars, uivars, auth, poster>>

\* fetch settles: rejected, or a response that is not OK, or an OK response
\* whose body is then awaited; catch sets the error, finally resets the flag.
GenFetched(h) ==
    /\ gen.presses[h].pc = "fetch"
    /\ \E outcome \in {"rejected", "notok", "ok"} :
        gen' =
            IF outcome = "ok"
            THEN [gen EXCEPT !.presses[h].pc = "json", !.presses[h].ok = TRUE]
            ELSE [gen EXCEPT !.presses[h].pc = "done",
                             !.error = IF outcome = "notok" THEN MsgNotOk
                                       ELSE MsgThrown,
                             !.isGenerating = FALSE]
    /\ UNCHANGED <<m4vars, app, m5vars, uivars, auth, poster>>

\* response.json() settles: rejected, or data without a description, or
\* data with one, which is passed to onGenerated; finally resets the flag.
GenParsed(h) ==
    /\ gen.presses[h].pc = "json"
    /\ \E outcome \in {"rejected", "empty", "value"} :
        gen' =
            IF outcome = "value"
            THEN [gen EXCEPT !.presses[h].pc = "done",
                             !.presses[h].description = "value",
                             !.presses[h].generated = "value",
                             !.isGenerating = FALSE]
            ELSE [gen EXCEPT !.presses[h].pc = "done",
                             !.error = IF outcome = "empty" THEN MsgNoDescription
                                       ELSE MsgThrown,
                             !.isGenerating = FALSE]
    /\ UNCHANGED <<m4vars, app, m5vars, uivars, auth, poster>>

----------------------------------------------------------------------------
(* Concurrent registrations only *)

Module4Seeded ==
    /\ \E e \in SeedEvents :
        /\ events = <<e>>
        /\ seed = <<e>>
        /\ closed = IF e.status = "cancelado" THEN {e.id} ELSE {}
    /\ now = 1
    /\ nextId = 1
    /\ calls = [c \in Calls |-> IdleCall]
    /\ clients = [k \in Clients |-> IdleClient(events[1].registeredCount)]

Module5Seeded ==
    /\ \E d \in SeedDocs :
        /\ docs = [i \in DocIds |-> IF i = 1 THEN d ELSE NoDoc]
        /\ docs0 = [i \in DocIds |-> IF i = 1 THEN d ELSE NoDoc]
    /\ txs = [x \in Txs |-> IdleTx]

\* One of the two applications is deployed; the other one's state is empty.
Module4Off ==
    /\ events = <<>>
    /\ seed = <<>>
    /\ closed = {}
    /\ now = 1
    /\ nextId = 0
    /\ calls = [c \in Calls |-> IdleCall]
    /\ clients = [k \in Clients |-> IdleClient(0)]

Module5Off ==
    /\ docs = [i \in DocIds |-> NoDoc]
    /\ docs0 = [i \in DocIds |-> NoDoc]
    /\ txs = [x \in Txs |-> IdleTx]

\* AuthProvider is not mounted, no poster has been asked for and the
\* description button has not been pressed.
AuxIdle ==
    /\ auth = AuthIdle
    /\ poster = PosterIdle
    /\ gen = GenIdle

InitReserve ==
    /\ \/ app = "module4" /\ Module4Seeded /\ Module5Off
       \/ app = "module5" /\ Module4Off /\ Module5Seeded
    /\ AuxIdle

NextReserve ==
    \/ \E c \in Calls : RegisterCall(c)
    \/ \E c \in Calls : RegisterCommit(c)
    \/ \E c \in Calls : Deliver(c)
    \/ \E x \in Txs : TxCall(x)
    \/ \E x \in Txs : TxGet(x)
    \/ \E x \in Txs : TxCommit(x)

SpecReserve == InitReserve /\ [][NextReserve]_vars

----------------------------------------------------------------------------
(* Module 4: every server action, interleaved *)

Init == app = "module4" /\ Module4Seeded /\ Module5Off /\ AuxIdle

Next ==
    \/ \E c \in Requests : RegisterCall(c)
    \/ \E c \in Requests : RegisterCommit(c)
    \/ \E c \in Requests : UpdateCall(c)
    \/ \E c \in Requests : UpdateCommit(c)
    \/ \E c \in Requests : DeleteCall(c)
    \/ \E c \in Requests : DeleteCommit(c)
    \/ \E c \in Requests : CreateCall(c)
    \/ \E c \in Requests : CreateCommit(c)
    \/ \E c \in Requests : Deliver(c)

Spec == Init /\ [][Next]_vars

----------------------------------------------------------------------------
(* Module 4: pages reading an event while registrations and deletions run *)

NextRead ==
    \/ \E c \in Calls : ReadCall(c)
    \/ \E c \in Calls : ReadCommit(c)
    \/ \E c \in Calls : RegisterCall(c)
    \/ \E c \in Calls : RegisterCommit(c)
    \/ \E c \in Calls : DeleteCall(c)
    \/ \E c \in Calls : DeleteCommit(c)
    \/ \E c \in Calls : Deliver(c)

SpecRead == Init /\ [][NextRead]_vars

----------------------------------------------------------------------------
(* Module 4: the page of an event with a date, and registrations for it *)

\* The seeded event with the date it takes place on.
DatedEvents ==
    {[id |-> e.id, status |-> e.status, capacity |-> e.capacity,
      registeredCount |-> e.registeredCount, createdAt |-> e.createdAt,
      updatedAt |-> e.updatedAt, date |-> d] : e \in SeedEvents, d \in Dates}

InitDetail ==
    /\ app = "module4"
    /\ \E e \in DatedEvents :
        /\ events = <<e>>
        /\ seed = <<e>>
        /\ closed = IF e.status = "cancelado" THEN {e.id} ELSE {}
    /\ now = 1
    /\ nextId = 1
    /\ calls = [c \in Calls |-> IdleCall]
    /\ clients = [k \in Clients |-> IdleClient(events[1].registeredCount)]
    /\ Module5Off
    /\ AuxIdle

NextDetail ==
    \/ \E c \in Calls : ReadCall(c)
    \/ \E c \in Calls : ReadCommit(c)
    \/ \E c \in Calls : PageRender(c)
    \/ \E c \in Calls : RegisterCall(c)
    \/ \E c \in Calls : RegisterCommit(c)
    \/ \E c \in Calls : Deliver(c)

SpecDetail == InitDetail /\ [][NextDetail]_vars

----------------------------------------------------------------------------
(* Module 4: the events page listing the store *)

\* What the text of an event may be: no letter of the search text, the
\* search text in the title in another letter case, or in a tag.
ListedTexts ==
    {[title |-> <<"b">>, tags |-> {}],
     [title |-> <<"A", "b", "c">>, tags |-> {}],
     [title |-> <<"c">>, tags |-> {<<"c">>, <<"a", "b">>}]}

ListedEvent(id, text, category, status, date, price) ==
    [id |-> id, title |-> text.title, tags |-> text.tags,
     category |-> category, status |-> status, date |-> date, price |-> price,
     capacity |-> 1, registeredCount |-> 0, createdAt |-> 0, updatedAt |-> 0]

ListedEvents(id) ==
    {ListedEvent(id, text, category, status, date, price) :
        text \in ListedTexts, category \in {"conferencia", "taller"},
        status \in {"publicado", "borrador"}, date \in Dates, price \in Prices}

InitQuery ==
    /\ app = "module4"
    /\ \E e1 \in ListedEvents(1), e2 \in ListedEvents(2) :
        /\ events = <<e1, e2>>
        /\ seed = <<e1, e2>>
    /\ closed = {}
    /\ now = 1
    /\ nextId = 2
    /\ calls = [c \in Calls |-> IdleCall]
    /\ clients = [k \in Clients |-> IdleClient(0)]
    /\ Module5Off
    /\ AuxIdle

NextQuery ==
    \/ \E c \in Queries : GetEventsCall(c)
    \/ \E c \in Queries : GetEventsCommit(c)

SpecQuery == InitQuery /\ [][NextQuery]_vars

----------------------------------------------------------------------------
(* Module 4: clients registering through the optimistic view *)

NextClient ==
    \/ \E k \in Clients : Click(k)
    \/ \E c \in Calls : RegisterCommit(c)
    \/ \E c \in Calls : Deliver(c)
    \/ \E k \in Clients : Settle(k)
    \/ \E k \in Clients : NetworkFailure(k)

SpecClient == Init /\ [][NextClient]_vars

\* The server call eventually returns: the timer of delay(300) fires, the
\* response is sent, and the client handles a response it has received.  The
\* network failure is left to chance.
ClientFairness ==
    /\ \A c \in Calls : WF_vars(RegisterCommit(c)) /\ WF_vars(Deliver(c))
    /\ \A k \in Clients : WF_vars(Settle(k))

SpecClientLive == Init /\ [][NextClient]_vars /\ ClientFairness

----------------------------------------------------------------------------
(* Module 5: registrations contending with other writers of the document *)

InitContention == app = "module5" /\ Module4Off /\ Module5Seeded /\ AuxIdle

NextContention ==
    \/ \E x \in Contenders : TxCall(x)
    \/ \E x \in Contenders : TxGet(x)
    \/ \E x \in Contenders : TxCommit(x)
    \/ \E d \in DocIds : DocWrite(d)

\* A started transaction is run: the store answers every read and commit.
SpecContention ==
    /\ InitContention
    /\ [][NextContention]_vars
    /\ \A x \in Contenders : WF_vars(TxGet(x)) /\ WF_vars(TxCommit(x))

----------------------------------------------------------------------------
(* Module 5: the auth listener; the poster cache *)

InitModule5 == app = "module5" /\ Module4Off /\ Module5Off

InitAuth == InitModule5 /\ AuxIdle

NextAuth ==
    \/ Mount
    \/ \E u \in Accounts \cup {NoUser} : AuthChange(u)
    \/ Listener
    \/ \E u \in Accounts : TokenResolved(u)
    \/ Unmount

SpecAuth == InitAuth /\ [][NextAuth]_vars

InitPoster ==
    /\ InitModule5
    /\ auth = AuthIdle
    /\ gen = GenIdle
    /\ \E b \in BOOLEAN : poster = [PosterIdle EXCEPT !.configured = b]

NextPoster ==
    \/ \E p \in PosterCalls : PosterCall(p)
    \/ \E p \in PosterCalls : PosterCacheRead(p)
    \/ \E p \in PosterCalls : PosterGenerated(p)
    \/ \E p \in PosterCalls : PosterUploaded(p)

SpecPoster == InitPoster /\ [][NextPoster]_vars

\* The description button in a form that is being filled in.
NextGenerate ==
    \/ \E props \in GenProps : GenRender(props)
    \/ \E h \in Presses : GenClick(h)
    \/ \E h \in Presses : GenFetched(h)
    \/ \E h \in Presses : GenParsed(h)

SpecGenerate == InitAuth /\ [][NextGenerate]_vars

\* The route handler serving requests, each calling generateEventPoster.
NextRoute ==
    \/ \E p \in RouteCalls : RoutePost(p)
    \/ \E p \in RouteCalls : RouteParsed(p)
    \/ \E p \in RouteCalls : PosterCacheRead(p)
    \/ \E p \in RouteCalls : PosterGenerated(p)
    \/ \E p \in RouteCalls : PosterUploaded(p)
    \/ \E p \in RouteCalls : RouteRespond(p)

SpecRoute == InitPoster /\ [][NextRoute]_vars

----------------------------------------------------------------------------
(* Claims about concurrent registrations *)

Committed(c) == calls[c].op = "register" /\ calls[c].pc \in {"returned", "done"}
Accepted(c) == Committed(c) /\ calls[c].branch = "ok"
AcceptedOn(id) == {c \in Calls : Accepted(c) /\ calls[c].id = id}
TxAccepted(x) == txs[x].pc = "done" /\ txs[x].branch = "ok"
TxAcceptedOn(id) == {x \in Txs : TxAccepted(x) /\ txs[x].id = id}

\* C1: under any interleaving of concurrent registrations, registeredCount
\* stays within 0..capacity, in the in-memory store and in the Firestore
\* collection alike.
C1_CountWithinCapacity ==
    /\ \A i \in 1..Len(events) :
        /\ 0 <= events[i].registeredCount
        /\ events[i].registeredCount <= events[i].capacity
    /\ \A d \in DocIds :
        docs[d].exists =>
            /\ 0 <= docs[d].registeredCount
            /\ docs[d].registeredCount <= docs[d].capacity

\* C1 witness: a registration filled the event and a later one was turned away.
C1_Witness ==
    \E c, d \in Calls :
        /\ Accepted(c)
        /\ Committed(d) /\ calls[d].branch = "Full"
        /\ calls[c].id = calls[d].id
        /\ events[1].registeredCount = events[1].capacity

\* C2: N registrations were issued against an open event with k < N free
\* slots and all of them have run: exactly k were accepted and the other
\* N - k were rejected at the capacity check.
C2_ExactlyKSucceed ==
    \A id \in TargetIds :
        LET i == FindIndex(seed, id)
            issued == {c \in Calls : calls[c].op = "register" /\ calls[c].id = id}
            k == seed[i].capacity - seed[i].registeredCount
        IN  ( /\ i # 0
              /\ seed[i].status = "publicado"
              /\ \A c \in issued : Committed(c)
              /\ k < Cardinality(issued) )
            => /\ Cardinality(AcceptedOn(id)) = k
               /\ Cardinality({c \in issued : calls[c].branch = "Full"})
                    = Cardinality(issued) - k

\* C2 witness: three registrations against two free slots have all run, the
\* one issued last having committed first.
C2_Witness ==
    /\ Len(seed) = 1
    /\ seed[1].status = "publicado"
    /\ seed[1].capacity - seed[1].registeredCount = 2
    /\ \A c \in Calls : Committed(c) /\ calls[c].id = 1
    /\ calls[NumCalls].branch = "ok"
    /\ calls[NumCalls].seen = seed[1].registeredCount

\* C3: no two accepted registrations of one event were decided on the same
\* pre-mutation count, and every accepted registration is in the stored
\* count (no lost update), for registerForEvent in memory and for the
\* runTransaction variant.
C3_NoLostUpdate ==
    /\ \A c, d \in Calls :
        (c # d /\ Accepted(c) /\ Accepted(d) /\ calls[c].id = calls[d].id)
            => calls[c].seen # calls[d].seen
    /\ \A i \in 1..Len(events) :
        events[i].registeredCount =
            seed[i].registeredCount + Cardinality(AcceptedOn(events[i].id))
    /\ \A x, y \in Txs :
        (x # y /\ TxAccepted(x) /\ TxAccepted(y) /\ txs[x].id = txs[y].id)
            => txs[x].snap.registeredCount # txs[y].snap.registeredCount
    /\ \A d \in DocIds :
        docs[d].registeredCount =
            docs0[d].registeredCount + Cardinality(TxAcceptedOn(d))

\* C3 witness: two overlapping calls were both accepted: in memory the call
\* issued second committed first; in Firestore a transaction that lost the
\* race read again and then committed.
C3_Witness ==
    \/ /\ Accepted(1) /\ Accepted(2)
       /\ calls[1].id = calls[2].id
       /\ calls[2].seen < calls[1].seen
    \/ \E x \in Txs : TxAccepted(x) /\ txs[x].attempts >= 2

----------------------------------------------------------------------------
(* Claims about the store under every server action *)

\* The step in which the registration of request c runs after its delay.
RegisterStep(c) ==
    /\ calls[c].op = "register"
    /\ calls[c].pc = "delay"
    /\ calls'[c].pc = "returned"

Rejected(c) == Committed(c) /\ calls[c].branch # "ok"

\* C4: no edit leaves an event with capacity below its registeredCount.
C4_CapacityNeverBelowCount ==
    \A i \in 1..Len(events) : events[i].capacity >= events[i].registeredCount

\* C5: a rejected registration (unknown id, not published, full) leaves the
\* whole store as it was: every field of every event, and their order.
C5_RejectWritesNothing ==
    [][\A c \in Calls :
        (RegisterStep(c) /\ calls'[c].branch # "ok") => events' = events]_vars

\* C5 witness: while the store held two events, a registration for one of
\* them was rejected at the capacity or the status check.
C5_Witness ==
    /\ Len(events) = 2
    /\ \E c \in Calls : Rejected(c) /\ calls[c].branch \in {"Full", "NotOpen"}

\* What the caller of registerForEventAction receives.
Outcome(c) ==
    [success |-> calls[c].success, message |-> calls[c].message,
     data |-> IF calls[c].pc = "done" THEN calls[c].reported ELSE calls[c].ret]

C7_EachSlotReportedOnce ==
    \A c \in Calls :
        (Accepted(c) /\ calls[c].pc = "done") =>
            /\ calls[c].reported.registeredCount = calls[c].seen + 1
            /\ \A d \in Calls :
                (d # c /\ Accepted(d) /\ calls[d].pc = "done"
                       /\ calls[d].id = calls[c].id)
                    => calls[d].reported.registeredCount
                        # calls[c].reported.registeredCount

\* C8 as claimed: no registration is accepted for an event that has been
\* cancelled at some earlier time.
C8_ClosedIsTerminal ==
    \A c \in Calls : Accepted(c) => ~calls[c].wasClosed

\* C8 as amended: a registration is accepted only for an event whose status
\* is `publicado` when the registration runs; a cancelled event accepts none
\* while it stays cancelled, and accepts them again once an edit has set its
\* status back to `publicado`.
C8_AcceptedOnlyWhilePublished ==
    [][\A c \in Calls :
        (RegisterStep(c) /\ calls'[c].branch = "ok") =>
            LET i == FindIndex(events, calls[c].id) IN
            /\ i # 0
            /\ events[i].status = "publicado"]_vars

\* C8 witness: an event that had been cancelled was edited back to
\* `publicado` and a registration for it was accepted.
C8_Witness ==
    \E c \in Calls : Accepted(c) /\ calls[c].wasClosed

----------------------------------------------------------------------------
(* Claims about the optimistic view *)

----------------------------------------------------------------------------
(* Claims about the transaction under contention *)

----------------------------------------------------------------------------
(* Claims about the frame of the server actions *)

\* C14: registerForEventAction has revalidated the page and reported
\* success exactly when the registration it awaited was committed, the
\* increment being in the store by then; before the registration has run,
\* and when it was rejected, nothing is revalidated and success is false.
C14_SideEffectAfterCommit ==
    \A c \in Calls :
        calls[c].op = "register" =>
            /\ calls[c].pc = "delay" => (~calls[c].reval /\ ~calls[c].success)
            /\ calls[c].reval <=> Accepted(c)
            /\ calls[c].success <=> calls[c].reval
            /\ calls[c].reval =>
                    LET i == FindIndex(events, calls[c].id) IN
                    /\ i # 0
                    /\ events[i].registeredCount >= calls[c].seen + 1
                    /\ events[i].registeredCount > seed[i].registeredCount

\* C14 witness: one registration was committed and revalidated the page,
\* the next one met the full event and revalidated nothing.
C14_Witness ==
    \E c, d \in Calls :
        /\ Accepted(c) /\ calls[c].reval
        /\ Rejected(d) /\ calls[d].branch = "Full" /\ ~calls[d].reval
        /\ calls[c].id = calls[d].id

\* The step in which getEventById of request c runs after its delay.
ReadStep(c) ==
    /\ calls[c].op = "read"
    /\ calls[c].pc = "delay"
    /\ calls'[c].pc = "returned"

\* What an earlier read of request d shows to its caller now.
ReadResult(d) == IF calls[d].pc = "done" THEN calls[d].reported ELSE calls[d].ret

\* C15: a read by id changes nothing in the store, and returns what every
\* earlier read of that id returned since the last write.
C15_ReadIsIdempotent ==
    [][\A c \in Calls :
        ReadStep(c) =>
            /\ events' = events
            /\ \A d \in Calls \ {c} :
                ( /\ calls[d].op = "read"
                  /\ calls[d].pc \in {"returned", "done"}
                  /\ calls[d].id = calls[c].id
                  /\ calls[d].stamp = Version )
                    => calls'[c].ret = ReadResult(d)]_vars

\* C15 witness: after a registration, two reads of the event with no write
\* between them returned it.
C15_Witness ==
    \E c, d \in Calls :
        /\ c # d
        /\ calls[c].op = "read" /\ calls[d].op = "read"
        /\ calls[c].pc \in {"returned", "done"} /\ calls[d].pc \in {"returned", "done"}
        /\ calls[c].id = calls[d].id
        /\ calls[c].branch = "found" /\ calls[d].branch = "found"
        /\ calls[c].stamp = 1 /\ calls[d].stamp = 1

\* The step in which updateEvent of request c runs after its delay.
UpdateStep(c) ==
    /\ calls[c].op = "update"
    /\ calls[c].pc = "delay"
    /\ calls'[c].pc = "returned"

\* C16: an update leaves every other event alone and keeps the id, the
\* createdAt and the registeredCount of the event it edits; status and
\* capacity change only when the form submitted them.
C16_UpdateKeepsIdentity ==
    [][\A c \in Calls :
        UpdateStep(c) =>
            LET i == FindIndex(events, calls[c].id)
                data == calls[c].data
            IN  /\ Len(events') = Len(events)
                /\ \A j \in 1..Len(events) : j # i => events'[j] = events[j]
                /\ i # 0 =>
                    /\ events'[i].id = events[i].id
                    /\ events'[i].createdAt = events[i].createdAt
                    /\ events'[i].registeredCount = events[i].registeredCount
                    /\ data.status = "absent" => events'[i].status = events[i].status
                    /\ data.capacity = Absent => events'[i].capacity = events[i].capacity]_vars

\* C16 witness: an event with registrations was cancelled by an edit and
\* still has them.
C16_Witness ==
    \E c \in Calls :
        /\ calls[c].op = "update" /\ calls[c].branch = "ok"
        /\ calls[c].data.status = "cancelado"
        /\ seed[1].status = "publicado"
        /\ Len(events) >= 1
        /\ events[1].id = calls[c].id
        /\ events[1].status = "cancelado"
        /\ events[1].registeredCount > 0

\* The step in which deleteEvent of request c runs after its delay.
DeleteStep(c) ==
    /\ calls[c].op = "delete"
    /\ calls[c].pc = "delay"
    /\ calls'[c].pc = "returned"

\* C19: deleteEvent removes the event with the given id and nothing else,
\* the others keeping their order, and the action reports success and
\* revalidates; for an unknown id the store stays as it was and the action
\* reports success=false without revalidating.
C19_DeleteRemovesExactlyOne ==
    [][\A c \in Calls :
        DeleteStep(c) =>
            LET i == FindIndex(events, calls[c].id) IN
            IF i = 0
            THEN /\ events' = events
                 /\ ~calls'[c].success /\ ~calls'[c].reval
                 /\ calls'[c].message = MsgDeleteNotFound
            ELSE /\ Len(events') = Len(events) - 1
                 /\ \A j \in 1..(i - 1) : events'[j] = events[j]
                 /\ \A j \in i..Len(events') : events'[j] = events[j + 1]
                 /\ calls'[c].success /\ calls'[c].reval
                 /\ calls'[c].message = MsgDeleted]_vars

\* C19 witness: the first of two stored events was deleted and the second
\* one is what the store holds.
C19_Witness ==
    \E c \in Calls :
        /\ calls[c].op = "delete" /\ calls[c].branch = "ok" /\ calls[c].id = 1
        /\ Len(events) = 1
        /\ events[1].id = 2

\* The step in which createEventAction of request c is invoked.
CreateInvoked(c) ==
    /\ calls[c].pc = "idle"
    /\ calls'[c].op = "create"

\* The step in which createEvent of request c runs after its delay.
CreateStep(c) ==
    /\ calls[c].op = "create"
    /\ calls[c].pc = "delay"
    /\ calls'[c].pc = "returned"

\* A form that passes the schema: a status chosen, a capacity of at least 1.
WellFormed(form) ==
    /\ form.status # "absent"
    /\ form.capacity # Absent
    /\ form.capacity > 0

MutationStep(c) ==
    /\ RegisterStep(c) \/ UpdateStep(c)
    /\ calls'[c].branch = "ok"

\* C24 as claimed: every successful registration and every successful
\* update strictly advances the updatedAt of its event.
C24_UpdatedAtStrictlyAdvances ==
    [][\A c \in Calls :
        MutationStep(c) =>
            LET i == FindIndex(events, calls[c].id) IN
            events'[i].updatedAt > events[i].updatedAt]_vars

\* C24 as amended: every successful registration and every successful
\* update sets updatedAt to the reading of the clock at its commit, which is
\* not before the previous updatedAt, so updatedAt never moves backwards;
\* two mutations committed on the same reading carry the same updatedAt.
C24_UpdatedAtNeverGoesBack ==
    [][/\ \A c \in Calls :
            MutationStep(c) =>
                LET i == FindIndex(events, calls[c].id) IN
                /\ events'[i].updatedAt = now'
                /\ events'[i].updatedAt >= events[i].updatedAt
       /\ \A i \in 1..Len(events), j \in 1..Len(events') :
            events'[j].id = events[i].id =>
                events'[j].updatedAt >= events[i].updatedAt]_vars

\* C24 witness: a registration and an edit of the same event were both
\* committed on one reading of the clock, and the event carries that reading.
C24_Witness ==
    \E c, d \in Calls :
        /\ Accepted(c)
        /\ calls[d].op = "update" /\ calls[d].branch = "ok"
        /\ calls[c].id = calls[d].id
        /\ now = 1
        /\ \E i \in 1..Len(events) :
            events[i].id = calls[c].id /\ events[i].updatedAt = now

\* The successful edits of event id that have been committed.
UpdatedOn(id) ==
    {d \in Calls : /\ calls[d].op = "update"
                    /\ calls[d].pc \in {"returned", "done"}
                    /\ calls[d].branch = "ok"
                    /\ calls[d].id = id}

\* The count event id started with: its seeded count, 0 for a created event.
BaseCount(id) ==
    IF FindIndex(seed, id) # 0 THEN seed[FindIndex(seed, id)].registeredCount ELSE 0

\* C25: when an edit and an accepted registration of one event have both
\* been committed, in either order, the stored event has both effects: its
\* count is the count it started with plus one for each accepted
\* registration, and the fields the edit submitted hold the edit's values.
C25_NeitherEffectLost ==
    \A c, d \in Calls :
        (Accepted(c) /\ d \in UpdatedOn(calls[c].id)) =>
            LET id == calls[c].id
                i == FindIndex(events, id)
                data == calls[d].data
            IN  i # 0 =>
                /\ events[i].registeredCount
                        = BaseCount(id) + Cardinality(AcceptedOn(id))
                /\ UpdatedOn(id) = {d} =>
                        /\ data.status # "absent" => events[i].status = data.status
                        /\ data.capacity # Absent => events[i].capacity = data.capacity

\* C25 witness: a registration was called for a draft event, then an edit
\* publishing it was called and committed while the registration was still
\* waiting, and the registration was then accepted: the event is published
\* and counts one more.
C25_Witness ==
    /\ Accepted(1) /\ calls[1].id = 1
    /\ UpdatedOn(1) = {2}
    /\ calls[2].data.status = "publicado"
    /\ seed[1].status = "borrador"
    /\ Len(events) >= 1 /\ events[1].id = 1
    /\ events[1].status = "publicado"
    /\ events[1].registeredCount = seed[1].registeredCount + 1

\* C26: a registration is accepted only for an event the detail page would
\* offer as available at that moment: published, with free spots, and with
\* a date that has not passed.
C26_AcceptedOnlyIfOffered ==
    [][\A c \in Calls :
        (RegisterStep(c) /\ calls'[c].branch = "ok") =>
            LET i == FindIndex(events, calls[c].id) IN
            /\ i # 0
            /\ IsAvailable(events[i], now')]_vars

\* The ids whose deletion has been committed.
DeletedIds ==
    {calls[d].id : d \in {x \in Calls : /\ calls[x].op = "delete"
                                         /\ calls[x].pc \in {"returned", "done"}
                                         /\ calls[x].branch = "ok"}}

\* C27: once the deletion of an event has been committed the event is not
\* in the store and never comes back, and a registration for it that runs
\* afterwards, one that was already waiting included, finds nothing,
\* returns null and writes nothing.
C27_DeletedStaysDeleted ==
    [][/\ \A id \in DeletedIds :
            /\ FindIndex(events, id) = 0
            /\ FindIndex(events', id) = 0
       /\ \A c \in Calls :
            (RegisterStep(c) /\ calls[c].id \in DeletedIds) =>
                /\ calls'[c].branch = "NotFound"
                /\ calls'[c].ret = NoEvent
                /\ ~calls'[c].success
                /\ events' = events]_vars

\* C27 witness: a registration for a published event with free spots was
\* called, then the deletion was called and committed while the
\* registration was waiting, and the registration then found nothing.
C27_Witness ==
    /\ seed[1].id = 1 /\ seed[1].status = "publicado"
    /\ seed[1].registeredCount < seed[1].capacity
    /\ calls[1].op = "register" /\ calls[1].id = 1
    /\ calls[1].pc \in {"returned", "done"}
    /\ calls[1].branch = "NotFound"
    /\ calls[2].op = "delete" /\ calls[2].id = 1 /\ calls[2].branch = "ok"
    /\ events = <<>>

----------------------------------------------------------------------------
(* Claims about module 5: the auth listener, the poster cache *)

\* C17: the listener is registered while AuthProvider is mounted and not
\* after its teardown, and after the teardown nothing updates user, loading
\* or the auth cookie, a callback suspended at its token fetch included.
C17_NoUpdateAfterTeardown ==
    [][/\ auth'.subscribed => auth'.phase = "mounted"
       /\ auth.phase = "torn" =>
            /\ auth'.user = auth.user
            /\ auth'.loading = auth.loading
            /\ auth'.cookie = auth.cookie]_vars

\* C28: once every callback of the listener has run to its end (no state
\* change is left to report, no token fetch is pending), the auth cookie
\* holds a token exactly when the last state reported to the listener is a
\* signed-in user.
C28_CookieMatchesAuthState ==
    (auth.phase = "mounted" /\ ~auth.due /\ auth.fetching = {}) =>
        (auth.cookie # NoToken <=> auth.user # NoUser)

\* The runs of handleGenerate whose request is in flight.
InFlight == {h \in Presses : gen.presses[h].pc \in {"fetch", "json"}}

\* C29: isGenerating is true exactly while a request is in flight, so it
\* is false again after every outcome; at most one request is in flight;
\* onGenerated has been called only with the non-empty description of an
\* OK response; and a press with a required field missing sent no request.
C29_GeneratingWhileInFlight ==
    /\ gen.isGenerating <=> InFlight # {}
    /\ Cardinality(InFlight) <= 1
    /\ \A h \in Presses :
        LET r == gen.presses[h] IN
        /\ r.generated # "empty" =>
                (r.pc = "done" /\ r.ok /\ r.generated = r.description)
        /\ (\E f \in {"title", "category", "location", "date"} :
                r.input[f] = "empty") => ~r.sent
        /\ r.pc \in {"fetch", "json"} => r.sent

\* C29 witness: one press with the date missing sent nothing, one got an
\* OK response without a description, one got a description that was
\* passed to onGenerated, and the button is enabled again.
C29_Witness ==
    /\ ~gen.isGenerating
    /\ \E h, i, j \in Presses :
        /\ gen.presses[h].pc = "done" /\ ~gen.presses[h].sent
        /\ gen.presses[h].input.date = "empty"
        /\ gen.presses[h].input.title = "value"
        /\ gen.presses[i].pc = "done" /\ gen.presses[i].ok
        /\ gen.presses[i].generated = "empty"
        /\ gen.presses[j].pc = "done" /\ gen.presses[j].generated = "value"

\* C18: the image model is invoked at most once for an event, and all the
\* calls for one event that return a poster return the same URL.
C18_GeneratedOncePerEvent ==
    /\ \A id \in DocIds : poster.invoked[id] <= 1
    /\ \A p, q \in PosterCalls :
        ( /\ poster.calls[p].pc = "done" /\ poster.calls[q].pc = "done"
          /\ poster.calls[p].id = poster.calls[q].id
          /\ poster.calls[p].ret # NoUrl /\ poster.calls[q].ret # NoUrl )
            => poster.calls[p].ret = poster.calls[q].ret

\* C21: generateEventPoster never throws: a call that has ended has
\* returned, with null when one of its steps failed (the cache lookup, the
\* missing API key, the model, a response without an image, the upload) and
\* with the poster URL otherwise.
C21_NeverThrows ==
    \A p \in PosterCalls :
        /\ poster.calls[p].pc # "threw"
        /\ poster.calls[p].pc = "done" =>
                (poster.calls[p].ret = NoUrl <=> poster.calls[p].failure # "none")

\* A parsed body lacks one of the five required fields.
Lacks(body) ==
    \/ body.eventId \notin DocIds
    \/ \E f \in {"title", "category", "location", "date"} : body[f] # "value"

\* C22: POST /api/generate-poster answers 400, without calling
\* generateEventPoster, when the body lacks one of eventId, title, category,
\* location, date; 500 when the poster result is null; 500 when an error was
\* thrown; and 200 carrying posterUrl only when the result is a URL.
C22_StatusMapping ==
    \A p \in RouteCalls :
        LET r == poster.routes[p]
            g == poster.calls[p]
        IN  /\ r.pc # "responded" => r.status = 0
            /\ r.pc = "responded" =>
                /\ r.status \in {200, 400, 500}
                /\ (r.body.json /\ Lacks(r.body)) =>
                        (r.status = 400 /\ g.pc = "idle")
                /\ r.status = 400 => (r.body.json /\ Lacks(r.body))
                /\ (g.pc = "done" /\ g.ret = NoUrl) => r.status = 500
                /\ (~r.body.json \/ g.pc = "threw") => r.status = 500
                /\ r.status = 200 <=> (g.pc = "done" /\ g.ret # NoUrl)
                /\ r.posterUrl = IF r.status = 200 THEN g.ret ELSE NoUrl

\* C22 witness: a request lacking only its date was answered 400 and no
\* poster call was made for it, one whose poster came back null was answered
\* 500, and one was answered 200 with the URL.
C22_Witness ==
    \E p, q, o \in RouteCalls :
        /\ poster.routes[p].status = 400
        /\ poster.routes[p].body = [json |-> TRUE, eventId |-> 1, title |-> "value",
                                    category |-> "value", location |-> "value",
                                    date |-> "absent"]
        /\ poster.calls[p].pc = "idle"
        /\ poster.routes[q].status = 500
        /\ poster.calls[q].pc = "done"
        /\ poster.routes[o].status = 200
        /\ poster.routes[o].posterUrl \in PosterUrls(1)

----------------------------------------------------------------------------
(* Claims about the listing *)

\* The step in which getEvents of request c runs after its delay.
ListStep(c) ==
    /\ calls[c].op = "list"
    /\ calls[c].pc = "delay"
    /\ calls'[c].pc = "done"

\* An event passes every filter that was supplied.
Satisfies(e, f) ==
    /\ f.search # <<>> =>
            \/ Includes(ToLowerCase(e.title), ToLowerCase(f.search))
            \/ \E tag \in e.tags : Includes(ToLowerCase(tag), ToLowerCase(f.search))
    /\ f.category # "absent" => e.category = f.category
    /\ f.status # "absent" => e.status = f.status
    /\ f.dateFrom # Absent => e.date >= f.dateFrom
    /\ f.dateTo # Absent => e.date <= f.dateTo
    /\ f.priceMax # Absent => e.price <= f.priceMax

\* C20: getEvents(filters) returns the stored events that pass every
\* supplied filter, each once and no other, priceMax = 0 applied like any
\* other maximum, in ascending order of date, and leaves the store as it was.
C20_ListIsFilteredAndSorted ==
    [][\A c \in Calls :
        ListStep(c) =>
            LET f == calls[c].filters
                r == calls'[c].list
            IN  /\ events' = events
                /\ \A j \in 1..Len(r) :
                    /\ \E i \in 1..Len(events) : r[j] = events[i]
                    /\ Satisfies(r[j], f)
                /\ \A i \in 1..Len(events) :
                    Satisfies(events[i], f) =>
                        Cardinality({j \in 1..Len(r) : r[j] = events[i]}) = 1
                /\ \A j, k \in 1..Len(r) : j < k => r[j].date <= r[k].date]_vars

\* C20 witness: with priceMax = 0 and a search text, of two stored events
\* that match the text the free one was returned and the paid one was not.
C20_Witness ==
    \E c \in Calls :
        /\ calls[c].op = "list" /\ calls[c].pc = "done"
        /\ calls[c].filters.priceMax = 0
        /\ calls[c].filters.search # <<>>
        /\ Len(calls[c].list) = 1
        /\ \E i \in 1..Len(events) :
            /\ events[i].price > 0
            /\ Satisfies(events[i], [calls[c].filters EXCEPT !.priceMax = Absent])

====
